---- MODULE Spec2Model ----
(***************************************************************************)
(* TimeVec<T> (src/lib.rs): a time-windowed buffer of (timestamp, value)   *)
(* items kept in a VecDeque, with age-based eviction on push.              *)
(*                                                                         *)
(* Durations are natural numbers of nanoseconds.  An Option is a record    *)
(* [tag, val]; a Duration subtraction that underflows is the tag "Panic".  *)
(* The Drain returned by push() and drain() mutably borrows the TimeVec:   *)
(* while it is alive (cursor.active) no other operation can be called; it  *)
(* is advanced by DrainNext and released by DrainDrop.  A Drain that is    *)
(* leaked (mem::forget) instead of dropped is outside the model.           *)
(***************************************************************************)
EXTENDS Integers, Sequences, FiniteSets, TLC

\* ---------------------------------------------------------------- bounds
MaxTime == 4
MaxLimit == 3

MaxUnit == 1
MaxCapacity == 2

Times == 0..MaxTime
Limits == 0..MaxLimit
Values == {"a", "b"}
\* arguments of the unit setters, around the places where a unit carries into
\* the next one; the resulting limits stay below 2^31 nanoseconds
SecsInputs == 0..MaxUnit
MillisInputs == {a * 1000 + c : a, c \in 0..MaxUnit}
MicrosInputs == {a * 1000000 + b * 1000 + c : a, b, c \in 0..MaxUnit}
NanosInputs == {a * 1000000000 + b * 1000000 + c : a, b, c \in 0..MaxUnit}
Capacities == 0..MaxCapacity

VARIABLES limit, buffer, cursor, yielded, last, maxAcc, onlyPush, builder, setter

vars == <<limit, buffer, cursor, yielded, last, maxAcc, onlyPush, builder, setter>>
\* the TimeVecBuilder and the latest limit setter called on it
bvars == <<builder, setter>>

\* ---------------------------------------------------------------- Option
None == [tag |-> "None", val |-> 0]
Some(x) == [tag |-> "Some", val |-> x]
Panic == [tag |-> "Panic", val |-> 0]

\* ---------------------------------------------------------------- Duration
\* Duration::saturating_sub
saturating_sub(a, b) == IF a >= b THEN a - b ELSE 0

\* Duration::checked_sub
checked_sub(a, b) == IF a >= b THEN Some(a - b) ELSE None

\* impl Sub for Duration: panics on underflow
sub(a, b) == IF a >= b THEN Some(a - b) ELSE Panic

\* ---------------------------------------------------------------- VecDeque
front(buf) == IF buf = <<>> THEN None ELSE Some(buf[1])
back(buf) == IF buf = <<>> THEN None ELSE Some(buf[Len(buf)])
push_back(buf, it) == Append(buf, it)

\* VecDeque::partition_point(|i| i.0 < c): binary search over indices left..right
RECURSIVE bsearch(_, _, _, _)
bsearch(buf, c, left, right) ==
    IF left >= right THEN left
    ELSE LET mid == left + ((right - left) \div 2)
         IN IF buf[mid + 1][1] < c
            THEN bsearch(buf, c, mid + 1, right)
            ELSE bsearch(buf, c, left, mid)

partition_point(buf, c) == bsearch(buf, c, 0, Len(buf))

\* ---------------------------------------------------------------- TimeVec queries
len(buf) == Len(buf)
is_empty(buf) == Len(buf) = 0

\* an empty buffer reported as a zero span
checked_duration_zero(buf) ==
    IF front(buf).tag = "None" THEN Some(0)
    ELSE sub(back(buf).val[1], front(buf).val[1])

\* the subtraction with its operands swapped
checked_duration_swapped(buf) ==
    IF front(buf).tag = "None" THEN None
    ELSE sub(front(buf).val[1], back(buf).val[1])

checked_duration(buf) ==
    IF front(buf).tag = "None" THEN None
    ELSE sub(back(buf).val[1], front(buf).val[1])

duration(buf) ==
    LET d == checked_duration(buf)
    IN IF d.tag = "None" THEN Some(0) ELSE d

\* a plain subtraction in place of checked_sub
duration_from_back_unchecked(buf, d) ==
    IF back(buf).tag = "None" THEN None ELSE sub(d, back(buf).val[1])

duration_from_back(buf, d) ==
    IF back(buf).tag = "None" THEN None ELSE checked_sub(d, back(buf).val[1])

\* faulty variants of check_timestamp
check_timestamp_ge(buf, value) ==
    IF back(buf).tag = "None" THEN TRUE ELSE value >= back(buf).val[1]

check_timestamp_any(buf, value) == TRUE

check_timestamp_nonempty(buf, value) ==
    IF back(buf).tag = "None" THEN FALSE ELSE value > back(buf).val[1]

check_timestamp_first(buf, value) ==
    IF front(buf).tag = "None" THEN TRUE ELSE value > front(buf).val[1]

check_timestamp(buf, value) ==
    IF back(buf).tag = "None" THEN TRUE ELSE value > back(buf).val[1]

\* ---------------------------------------------------------------- TimeVecBuilder
\* a Duration as core::time::Duration holds it: whole seconds and nanoseconds
from_secs(v) == [secs |-> v, nanos |-> 0]
from_millis(v) == [secs |-> v \div 1000, nanos |-> (v % 1000) * 1000000]
from_micros(v) == [secs |-> v \div 1000000, nanos |-> (v % 1000000) * 1000]
from_nanos(v) == [secs |-> v \div 1000000000, nanos |-> v % 1000000000]
as_nanos(d) == d.secs * 1000000000 + d.nanos

\* impl Default for TimeVecBuilder
DefaultBuilder == [limit |-> None, capacity |-> None]
NoSetter == [name |-> "none", arg |-> 0]

with_limit(b, value) == [b EXCEPT !.limit = Some(value)]
with_limit_secs(b, value) == with_limit(b, from_secs(value))

\* with_limit_micros going through the milliseconds constructor
with_limit_micros_millis(b, value) == with_limit(b, from_millis(value))

with_limit_micros(b, value) == with_limit(b, from_micros(value))

with_limit_millis(b, value) == with_limit(b, from_millis(value))

with_limit_nanos(b, value) == with_limit(b, from_nanos(value))

with_capacity(b, value) == [b EXCEPT !.capacity = Some(value)]

\* Option<Duration>::unwrap_or_default
unwrap_or_default(o) == IF o.tag = "Some" THEN o.val ELSE from_secs(0)

\* ---------------------------------------------------------------- state
NoCursor == [active |-> FALSE, range |-> <<>>, idx |-> 0, tail |-> <<>>]

Op(name, ts, val, res) ==
    [op |-> name, ts |-> ts, val |-> val, lim |-> limit, pre |-> buffer,
     res |-> res, pmax |-> maxAcc,
     drained |-> IF last.op = "drain" /\ Len(yielded) = Len(last.pre)
                 THEN Len(yielded) ELSE -1]

Init ==
    /\ limit \in Limits
    /\ buffer = <<>>
    /\ cursor = NoCursor
    /\ yielded = <<>>
    /\ last = [op |-> "new", ts |-> 0, val |-> "a", lim |-> limit, pre |-> <<>>,
               res |-> None, pmax |-> -1, drained |-> -1]
    /\ maxAcc = -1
    /\ onlyPush = TRUE
    /\ builder = DefaultBuilder
    /\ setter = NoSetter

\* ---------------------------------------------------------------- operations
\* faulty cutoffs: one nanosecond too late, and `<=` in place of `<`
PushCutLate(buf, timestamp, lim) ==
    partition_point(buf, saturating_sub(timestamp, lim + 1))

PushCutInclusive(buf, timestamp, lim) ==
    partition_point(buf, saturating_sub(timestamp, lim) + 1)

\* the end of the range push() hands to VecDeque::drain(0..partition_point)
PushCut(buf, timestamp, lim) ==
    partition_point(buf, saturating_sub(timestamp, lim))

Push ==
    \E timestamp \in Times, item \in Values :
        /\ ~cursor.active
        /\ IF check_timestamp(buffer, timestamp)
           THEN LET buf1 == push_back(buffer, <<timestamp, item>>)
                    pp == PushCut(buf1, timestamp, limit)
                IN /\ cursor' = [active |-> TRUE, range |-> SubSeq(buf1, 1, pp),
                                 idx |-> 0, tail |-> SubSeq(buf1, pp + 1, Len(buf1))]
                   /\ buffer' = <<>>
                   /\ last' = Op("push", timestamp, item, Some(SubSeq(buf1, 1, pp)))
                   /\ maxAcc' = IF timestamp > maxAcc THEN timestamp ELSE maxAcc
           ELSE /\ last' = Op("push", timestamp, item, None)
                /\ UNCHANGED <<buffer, cursor, maxAcc>>
        /\ yielded' = <<>>
        /\ UNCHANGED <<bvars, limit, onlyPush>>

\* Iterator::next on the live Drain
DrainNext ==
    /\ cursor.active
    /\ cursor.idx < Len(cursor.range)
    /\ yielded' = Append(yielded, cursor.range[cursor.idx + 1])
    /\ cursor' = [cursor EXCEPT !.idx = cursor.idx + 1]
    /\ UNCHANGED <<bvars, limit, buffer, last, maxAcc, onlyPush>>

\* a faulty release that puts the unconsumed part of the range back
DrainDropKeepRest ==
    /\ cursor.active
    /\ buffer' = buffer \o SubSeq(cursor.range, cursor.idx + 1, Len(cursor.range))
                        \o cursor.tail
    /\ cursor' = NoCursor
    /\ UNCHANGED <<bvars, limit, yielded, last, maxAcc, onlyPush>>

\* a faulty release that puts the whole range back
DrainDropKeepAll ==
    /\ cursor.active
    /\ buffer' = buffer \o cursor.range \o cursor.tail
    /\ cursor' = NoCursor
    /\ UNCHANGED <<bvars, limit, yielded, last, maxAcc, onlyPush>>

\* Drop for Drain: the rest of the range is dropped, head and tail are joined
DrainDrop ==
    /\ cursor.active
    /\ buffer' = buffer \o cursor.tail
    /\ cursor' = NoCursor
    /\ UNCHANGED <<bvars, limit, yielded, last, maxAcc, onlyPush>>

PopFront ==
    /\ ~cursor.active
    /\ last' = Op("pop_front", 0, "a", front(buffer))
    /\ buffer' = IF buffer = <<>> THEN buffer ELSE Tail(buffer)
    /\ onlyPush' = FALSE
    /\ yielded' = <<>>
    /\ UNCHANGED <<bvars, limit, cursor, maxAcc>>

\* a faulty pop_back that applies the window to what is left
PopBackEvict ==
    /\ ~cursor.active
    /\ last' = Op("pop_back", 0, "a", back(buffer))
    /\ buffer' = IF Len(buffer) <= 1 THEN <<>>
                 ELSE LET rest == SubSeq(buffer, 1, Len(buffer) - 1)
                      IN SubSeq(rest, PushCut(rest, rest[Len(rest)][1], limit) + 1,
                                Len(rest))
    /\ onlyPush' = FALSE
    /\ yielded' = <<>>
    /\ UNCHANGED <<bvars, limit, cursor, maxAcc>>

PopBack ==
    /\ ~cursor.active
    /\ last' = Op("pop_back", 0, "a", back(buffer))
    /\ buffer' = IF buffer = <<>> THEN buffer ELSE SubSeq(buffer, 1, Len(buffer) - 1)
    /\ onlyPush' = FALSE
    /\ yielded' = <<>>
    /\ UNCHANGED <<bvars, limit, cursor, maxAcc>>

Clear ==
    /\ ~cursor.active
    /\ last' = Op("clear", 0, "a", None)
    /\ buffer' = <<>>
    /\ onlyPush' = FALSE
    /\ yielded' = <<>>
    /\ UNCHANGED <<bvars, limit, cursor, maxAcc>>

Drain ==
    /\ ~cursor.active
    /\ last' = Op("drain", 0, "a", Some(buffer))
    /\ cursor' = [active |-> TRUE, range |-> buffer, idx |-> 0, tail |-> <<>>]
    /\ buffer' = <<>>
    /\ yielded' = <<>>
    /\ onlyPush' = FALSE
    /\ UNCHANGED <<bvars, limit, maxAcc>>

\* an assignment to `limit` that also applies the window to the held items
SetLimitEvict ==
    \E value \in Limits :
        /\ ~cursor.active
        /\ value # limit
        /\ last' = Op("set_limit", value, "a", None)
        /\ limit' = value
        /\ buffer' = IF buffer = <<>> THEN buffer
                     ELSE SubSeq(buffer,
                                 PushCut(buffer, buffer[Len(buffer)][1], value) + 1,
                                 Len(buffer))
        /\ yielded' = <<>>
        /\ UNCHANGED <<bvars, cursor, maxAcc, onlyPush>>

\* an assignment to the public field `limit`
SetLimit ==
    \E value \in Limits :
        /\ ~cursor.active
        /\ value # limit
        /\ last' = Op("set_limit", value, "a", None)
        /\ limit' = value
        /\ yielded' = <<>>
        /\ UNCHANGED <<bvars, buffer, cursor, maxAcc, onlyPush>>

CheckedDuration ==
    /\ ~cursor.active
    /\ last' = Op("checked_duration", 0, "a", checked_duration(buffer))
    /\ yielded' = <<>>
    /\ UNCHANGED <<bvars, limit, buffer, cursor, maxAcc, onlyPush>>

DurationQ ==
    /\ ~cursor.active
    /\ last' = Op("duration", 0, "a", duration(buffer))
    /\ yielded' = <<>>
    /\ UNCHANGED <<bvars, limit, buffer, cursor, maxAcc, onlyPush>>

DurationFromBack ==
    \E reference \in Times :
        /\ ~cursor.active
        /\ last' = Op("duration_from_back", reference, "a",
                      duration_from_back(buffer, reference))
        /\ yielded' = <<>>
        /\ UNCHANGED <<bvars, limit, buffer, cursor, maxAcc, onlyPush>>

LenQ ==
    /\ ~cursor.active
    /\ last' = Op("len", 0, "a", Some(len(buffer)))
    /\ yielded' = <<>>
    /\ UNCHANGED <<bvars, limit, buffer, cursor, maxAcc, onlyPush>>

IsEmptyQ ==
    /\ ~cursor.active
    /\ last' = Op("is_empty", 0, "a", Some(is_empty(buffer)))
    /\ yielded' = <<>>
    /\ UNCHANGED <<bvars, limit, buffer, cursor, maxAcc, onlyPush>>

Next ==
    \/ Push
    \/ DrainNext
    \/ DrainDrop
    \/ PopFront
    \/ PopBack
    \/ Clear
    \/ Drain
    \/ SetLimit
    \/ CheckedDuration
    \/ DurationQ
    \/ DurationFromBack
    \/ LenQ
    \/ IsEmptyQ

Spec == Init /\ [][Next]_vars

\* an owner that never assigns `limit` after construction
NextFixedLimit ==
    \/ Push
    \/ DrainNext
    \/ DrainDrop
    \/ PopFront
    \/ PopBack
    \/ Clear
    \/ Drain
    \/ CheckedDuration
    \/ DurationQ
    \/ DurationFromBack
    \/ LenQ
    \/ IsEmptyQ

SpecFixedLimit == Init /\ [][NextFixedLimit]_vars

\* ---------------------------------------------------------------- builder chain
\* TimeVec::builder(): no TimeVec exists yet, its variables are placeholders
InitBuilder ==
    /\ builder = DefaultBuilder
    /\ setter = NoSetter
    /\ limit = 0
    /\ buffer = <<>>
    /\ cursor = NoCursor
    /\ yielded = <<>>
    /\ last = [op |-> "builder", ts |-> 0, val |-> "a", lim |-> 0, pre |-> <<>>,
               res |-> None, pmax |-> -1, drained |-> -1]
    /\ maxAcc = -1
    /\ onlyPush = TRUE

Building == last.op = "builder"
TimeVecFrame == UNCHANGED <<limit, buffer, cursor, yielded, last, maxAcc, onlyPush>>

WithLimit ==
    \E value \in Limits :
        /\ Building
        /\ builder' = with_limit(builder, from_nanos(value))
        /\ setter' = [name |-> "with_limit", arg |-> value]
        /\ TimeVecFrame

WithLimitSecs ==
    \E value \in SecsInputs :
        /\ Building
        /\ builder' = with_limit_secs(builder, value)
        /\ setter' = [name |-> "with_limit_secs", arg |-> value]
        /\ TimeVecFrame

WithLimitMicros ==
    \E value \in MicrosInputs :
        /\ Building
        /\ builder' = with_limit_micros(builder, value)
        /\ setter' = [name |-> "with_limit_micros", arg |-> value]
        /\ TimeVecFrame

WithLimitMillis ==
    \E value \in MillisInputs :
        /\ Building
        /\ builder' = with_limit_millis(builder, value)
        /\ setter' = [name |-> "with_limit_millis", arg |-> value]
        /\ TimeVecFrame

WithLimitNanos ==
    \E value \in NanosInputs :
        /\ Building
        /\ builder' = with_limit_nanos(builder, value)
        /\ setter' = [name |-> "with_limit_nanos", arg |-> value]
        /\ TimeVecFrame

WithCapacity ==
    \E value \in Capacities :
        /\ Building
        /\ builder' = with_capacity(builder, value)
        /\ TimeVecFrame
        /\ UNCHANGED setter

\* build(self): the chain ends here
Build ==
    /\ Building
    /\ limit' = as_nanos(unwrap_or_default(builder.limit))
    /\ buffer' = <<>>
    /\ last' = Op("build", 0, "a", None)
    /\ UNCHANGED <<bvars, cursor, yielded, maxAcc, onlyPush>>

NextBuilder ==
    \/ WithLimit
    \/ WithLimitSecs
    \/ WithLimitMicros
    \/ WithLimitMillis
    \/ WithLimitNanos
    \/ WithCapacity
    \/ Build

SpecBuilder == InitBuilder /\ [][NextBuilder]_vars

\* ---------------------------------------------------------------- properties
Monotone(buf) == \A i \in 1..(Len(buf) - 1) : buf[i][1] < buf[i + 1][1]
Items(buf) == {buf[i] : i \in 1..Len(buf)}
Released == ~cursor.active
AcceptedPush == last.op = "push" /\ last.res.tag = "Some"
NewItem == <<last.ts, last.val>>
\* the items the TimeVec holds, also while a Drain borrows it
Held == IF cursor.active THEN buffer \o cursor.tail ELSE buffer

\* C1: in every reachable state, adjacent items of the buffer have strictly
\* increasing timestamps (front oldest, back newest).
C1_TimestampMonotonicity == Monotone(Held)

C1_Witness ==
    /\ Released
    /\ Len(buffer) >= 3
    /\ last.op = "push"
    /\ ~onlyPush

\* C2: right after an accepted push(timestamp, value), every item left in the
\* buffer has timestamp - item.timestamp <= limit (the limit at that push); when
\* the limit exceeds the timestamp nothing is evicted.
C2_WindowBound ==
    (Released /\ AcceptedPush) =>
        /\ \A i \in 1..Len(buffer) : last.ts - buffer[i][1] <= last.lim
        /\ (last.lim > last.ts =>
                /\ last.res.val = <<>>
                /\ buffer = Append(last.pre, NewItem))

C2_Witness ==
    /\ Released
    /\ AcceptedPush
    /\ Len(last.res.val) >= 1
    /\ Len(buffer) >= 2
    /\ last.ts - buffer[1][1] = last.lim

\* C3: an accepted push evicts exactly the items of the pre-push buffer whose
\* age is strictly greater than the limit, oldest first; an item of age equal
\* to the limit stays; evicted items followed by the new buffer are the old
\* buffer followed by the new item.
C3_EvictionCompleteness ==
    (Released /\ AcceptedPush) =>
        LET B == last.pre
            ev == SelectSeq(B, LAMBDA it : last.ts - it[1] > last.lim)
        IN /\ last.res.val = ev
           /\ yielded = SubSeq(ev, 1, Len(yielded))
           /\ ev \o buffer = Append(B, NewItem)
           /\ \A i \in 1..Len(B) :
                 last.ts - B[i][1] = last.lim => B[i] \in Items(buffer)

C3_Witness ==
    /\ Released
    /\ AcceptedPush
    /\ Len(last.res.val) >= 2
    /\ yielded = last.res.val
    /\ Len(buffer) >= 2

\* C4: in a history of pushes only, a push whose timestamp is not strictly
\* greater than the prior accepted timestamp returns None and leaves the
\* buffer and the limit unchanged.
C4_RejectedPush ==
    (last.op = "push" /\ onlyPush /\ last.pmax >= 0 /\ last.ts <= last.pmax) =>
        /\ last.res.tag = "None"
        /\ Released
        /\ buffer = last.pre
        /\ Len(buffer) = Len(last.pre)
        /\ limit = last.lim

C4_Witness ==
    /\ last.op = "push"
    /\ onlyPush
    /\ last.pmax >= 0
    /\ last.ts < last.pmax
    /\ last.res.tag = "None"
    /\ Len(buffer) >= 2

\* C5: push returns Some exactly when the buffer was empty or the timestamp is
\* strictly greater than the back item's; an accepted push that evicts nothing
\* returns Some of an empty sequence; a push onto an empty buffer is accepted
\* for every timestamp, zero included.
C5_PushResult ==
    last.op = "push" =>
        LET B == last.pre
            ok == B = <<>> \/ last.ts > B[Len(B)][1]
        IN /\ (last.res.tag = "Some") <=> ok
           /\ last.res.tag \in {"Some", "None"}
           /\ (ok /\ \A i \in 1..Len(B) : last.ts - B[i][1] <= last.lim)
                 => (last.res.tag = "Some" /\ last.res.val = <<>>)

C5_Witness ==
    /\ last.op = "push"
    /\ last.pre = <<>>
    /\ last.ts = 0
    /\ last.res.tag = "Some"
    /\ last.res.val = <<>>
    /\ ~onlyPush

C5_WitnessReject ==
    /\ last.op = "push"
    /\ last.pre # <<>>
    /\ last.res.tag = "None"

\* C6 as stated: under any interleaving of push with pop_front, pop_back, clear
\* and drain, an accepted push has a timestamp strictly greater than that of
\* every earlier accepted push.
C6_Original == AcceptedPush => last.ts > last.pmax

\* C6 amended: an accepted push has a timestamp strictly greater than that of
\* every item the buffer held at that push, and strictly greater than that of
\* every earlier accepted push as long as no pop_front, pop_back, clear or
\* drain has been called.
C6_AcceptedIncrease ==
    AcceptedPush =>
        /\ \A i \in 1..Len(last.pre) : last.ts > last.pre[i][1]
        /\ (onlyPush => last.ts > last.pmax)

C6_Witness ==
    /\ AcceptedPush
    /\ onlyPush
    /\ last.pmax >= 0
    /\ Len(last.pre) >= 2

C6_WitnessLower ==
    /\ AcceptedPush
    /\ ~onlyPush
    /\ last.ts < last.pmax

\* C7: assigning a new value to `limit` leaves the buffer contents unchanged;
\* items leave the buffer for their age only in an accepted push, which applies
\* the limit current at that push.
C7_NoRetroactiveEviction ==
    [][ /\ (limit' # limit => Held' = Held /\ last'.op = "set_limit")
        /\ (Held' # Held =>
               last'.op \in {"push", "pop_front", "pop_back", "clear", "drain"})
        /\ (~cursor.active /\ cursor'.active /\ last'.op = "push" =>
               /\ limit' = limit
               /\ Held' = SelectSeq(Append(Held, <<last'.ts, last'.val>>),
                                    LAMBDA it : last'.ts - it[1] <= limit))
        /\ (~cursor.active /\ last'.op \in {"pop_front", "pop_back"} =>
               Len(Held') >= Len(Held) - 1)
      ]_vars

C7_Witness ==
    /\ Released
    /\ last.op = "set_limit"
    /\ Len(buffer) >= 2
    /\ buffer[Len(buffer)][1] - buffer[1][1] > limit

\* C8: checked_duration() and duration() never panic: in a non-empty buffer the
\* back timestamp is >= the front timestamp, checked_duration() is
\* Some(back - front), duration() is that value, and zero when empty.
C8_DurationNoPanic ==
    Released =>
        LET n == Len(buffer) IN
        /\ checked_duration(buffer).tag # "Panic"
        /\ duration(buffer).tag = "Some"
        /\ (n > 0 =>
               /\ buffer[n][1] >= buffer[1][1]
               /\ checked_duration(buffer) = Some(buffer[n][1] - buffer[1][1])
               /\ duration(buffer) = Some(buffer[n][1] - buffer[1][1]))
        /\ (n = 0 => checked_duration(buffer) = None /\ duration(buffer) = Some(0))
        /\ (last.op = "checked_duration" => last.res = checked_duration(buffer))
        /\ (last.op = "duration" => last.res = duration(buffer))

C8_Witness ==
    /\ Released
    /\ last.op = "checked_duration"
    /\ last.res.tag = "Some"
    /\ last.res.val >= 2
    /\ ~onlyPush

C8_WitnessDuration ==
    /\ Released
    /\ last.op = "duration"
    /\ last.res = Some(0)
    /\ buffer = <<>>

\* C9 as stated: when the sequence returned by drain() is released after k of
\* its n items were taken, the n-k items not taken remain in the buffer.
C9_Original ==
    (Released /\ last.op = "drain") =>
        buffer = SubSeq(last.pre, Len(yielded) + 1, Len(last.pre))

\* C9 amended: when the sequence returned by drain() is released after k of its
\* n items were taken, the k items taken are the k oldest, oldest first, and the
\* buffer is empty: the n-k items not taken are removed too.
C9_DrainRelease ==
    (Released /\ last.op = "drain") =>
        /\ buffer = <<>>
        /\ yielded = SubSeq(last.pre, 1, Len(yielded))
        /\ Len(yielded) <= Len(last.pre)

C9_Witness ==
    /\ Released
    /\ last.op = "drain"
    /\ Len(yielded) >= 1
    /\ Len(yielded) < Len(last.pre)
    /\ buffer = <<>>

\* C10: drain() consumed to completion yields every held item oldest first and
\* leaves the buffer empty with the limit unchanged; a drain() after that
\* yields nothing and leaves the buffer empty.
C10_IdempotentDraining ==
    (Released /\ last.op = "drain" /\ Len(yielded) = Len(last.res.val)) =>
        /\ yielded = last.pre
        /\ buffer = <<>>
        /\ len(buffer) = 0
        /\ is_empty(buffer)
        /\ limit = last.lim
        /\ (last.drained >= 0 => last.pre = <<>> /\ yielded = <<>>)

C10_Witness ==
    /\ Released
    /\ last.op = "drain"
    /\ last.drained >= 2
    /\ yielded = <<>>
    /\ buffer = <<>>

C10_WitnessFull ==
    /\ Released
    /\ last.op = "drain"
    /\ Len(yielded) >= 2
    /\ yielded = last.pre

\* C11: pop_front() / pop_back() on a non-empty buffer return exactly the
\* oldest / newest item, leave the other items and their order unchanged,
\* shorten the buffer by one, leave `limit` unchanged and evict nothing else,
\* also when items left are older than the window.
C11_PopFrame ==
    (Released /\ last.op \in {"pop_front", "pop_back"} /\ last.pre # <<>>) =>
        LET B == last.pre IN
        /\ limit = last.lim
        /\ len(buffer) = len(B) - 1
        /\ (last.op = "pop_front" =>
               last.res = Some(B[1]) /\ buffer = SubSeq(B, 2, Len(B)))
        /\ (last.op = "pop_back" =>
               last.res = Some(B[Len(B)]) /\ buffer = SubSeq(B, 1, Len(B) - 1))

C11_Witness ==
    /\ Released
    /\ last.op = "pop_back"
    /\ Len(buffer) >= 2
    /\ buffer[Len(buffer)][1] - buffer[1][1] > limit

C11_WitnessFront ==
    /\ Released
    /\ last.op = "pop_front"
    /\ Len(buffer) >= 2
    /\ buffer[Len(buffer)][1] - buffer[1][1] > limit

\* C12: whenever the buffer is empty, checked_duration() is None, duration()
\* is zero, len() is 0, is_empty() is true, and pop_front() / pop_back() return
\* None and change nothing; clear() always leaves the buffer empty.
C12_EmptinessSemantics ==
    /\ (Released /\ buffer = <<>>) =>
          /\ checked_duration(buffer) = None
          /\ duration(buffer) = Some(0)
          /\ len(buffer) = 0
          /\ is_empty(buffer)
    /\ (Released /\ last.pre = <<>>) =>
          /\ (last.op = "checked_duration" => last.res = None)
          /\ (last.op = "duration" => last.res = Some(0))
          /\ (last.op = "len" => last.res = Some(0))
          /\ (last.op = "is_empty" => last.res = Some(TRUE))
          /\ (last.op \in {"pop_front", "pop_back"} =>
                 /\ last.res.tag = "None"
                 /\ buffer = <<>>
                 /\ limit = last.lim)
    /\ (Released /\ last.op = "clear") => buffer = <<>>

C12_Witness ==
    /\ Released
    /\ last.op = "checked_duration"
    /\ last.pre = <<>>
    /\ last.res.tag = "None"
    /\ maxAcc >= 0

C12_WitnessPop ==
    /\ Released
    /\ last.op = "pop_back"
    /\ last.pre = <<>>
    /\ last.res.tag = "None"
    /\ maxAcc >= 0

C12_WitnessClear ==
    /\ Released
    /\ last.op = "clear"
    /\ Len(last.pre) >= 2
    /\ buffer = <<>>

\* C13: duration_from_back(reference) is Some(reference - back.timestamp)
\* exactly when the buffer is non-empty and reference >= back.timestamp, None
\* otherwise, never panics and does not modify the buffer.
C13_DurationFromBack ==
    (Released /\ last.op = "duration_from_back") =>
        LET B == last.pre
            present == B # <<>> /\ last.ts >= B[Len(B)][1]
        IN /\ last.res.tag \in {"Some", "None"}
           /\ (last.res.tag = "Some") <=> present
           /\ (present => last.res.val = last.ts - B[Len(B)][1])
           /\ buffer = B
           /\ limit = last.lim

C13_Witness ==
    /\ Released
    /\ last.op = "duration_from_back"
    /\ Len(last.pre) >= 2
    /\ last.res = Some(0)

C13_WitnessEarlier ==
    /\ Released
    /\ last.op = "duration_from_back"
    /\ last.pre # <<>>
    /\ last.ts < last.pre[Len(last.pre)][1]
    /\ last.res.tag = "None"

Stamps(buf) == [i \in 1..Len(buf) |-> buf[i][1]]

\* C14: with whole-nanosecond timestamps and limit L at the push, the buffer
\* holds between 1 and L+1 items after an accepted push; with a zero limit it
\* holds exactly the item just pushed and checked_duration() is Some(0); with
\* limit 3 and items at 0,1,2,3 a push at 4 leaves the items at 1,2,3,4.
C14_OccupancyBound ==
    (Released /\ AcceptedPush) =>
        /\ len(buffer) >= 1
        /\ len(buffer) <= last.lim + 1
        /\ (last.lim = 0 =>
               /\ buffer = <<NewItem>>
               /\ checked_duration(buffer) = Some(0))
        /\ (last.lim = 3 /\ Stamps(last.pre) = <<0, 1, 2>> /\ last.ts = 3 =>
               Stamps(buffer) = <<0, 1, 2, 3>>)
        /\ (last.lim = 3 /\ Stamps(last.pre) = <<0, 1, 2, 3>> /\ last.ts = 4 =>
               Stamps(buffer) = <<1, 2, 3, 4>>)

C14_Witness ==
    /\ Released
    /\ AcceptedPush
    /\ onlyPush
    /\ last.lim = 3
    /\ Stamps(last.pre) = <<0, 1, 2, 3>>
    /\ last.ts = 4
    /\ len(buffer) = 4

C14_WitnessZero ==
    /\ Released
    /\ AcceptedPush
    /\ last.lim = 0
    /\ Len(last.pre) >= 2
    /\ len(buffer) = 1

\* the limit in nanoseconds that the latest limit setter asked for
ExpectedLimit ==
    CASE setter.name = "none" -> 0
      [] setter.name = "with_limit" -> setter.arg
      [] setter.name = "with_limit_secs" -> setter.arg * 1000000000
      [] setter.name = "with_limit_millis" -> setter.arg * 1000000
      [] setter.name = "with_limit_micros" -> setter.arg * 1000
      [] setter.name = "with_limit_nanos" -> setter.arg

\* C15: build() yields an empty TimeVec whose limit is the value of the latest
\* limit setter converted to nanoseconds (secs * 10^9, millis * 10^6,
\* micros * 10^3, nanos * 1), or zero without one; setting a capacity changes
\* neither the limit nor the contents.
C15_BuilderLimit ==
    /\ (setter.name = "none") <=> (builder.limit.tag = "None")
    /\ (builder.limit.tag = "Some" =>
           /\ as_nanos(builder.limit.val) = ExpectedLimit
           /\ builder.limit.val.nanos < 1000000000)
    /\ (last.op = "build" =>
           /\ limit = ExpectedLimit
           /\ buffer = <<>>
           /\ len(buffer) = 0
           /\ Released)

C15_Witness ==
    /\ last.op = "build"
    /\ setter.name = "with_limit_micros"
    /\ setter.arg > 1001000
    /\ builder.capacity.tag = "Some"
    /\ limit = setter.arg * 1000

C15_WitnessDefault ==
    /\ last.op = "build"
    /\ setter.name = "none"
    /\ builder.capacity.tag = "Some"
    /\ limit = 0

\* C16: after an accepted push whose returned sequence is dropped without
\* taking any element, the evicted items are out of the buffer, and len() and
\* checked_duration() reflect the window bound.
C16_EvictionWithoutConsuming ==
    (Released /\ AcceptedPush /\ yielded = <<>>) =>
        LET B == last.pre
            ev == SelectSeq(B, LAMBDA it : last.ts - it[1] > last.lim)
        IN /\ Items(ev) \cap Items(buffer) = {}
           /\ len(buffer) = Len(B) + 1 - Len(ev)
           /\ checked_duration(buffer).tag = "Some"
           /\ checked_duration(buffer).val <= last.lim

C16_Witness ==
    /\ Released
    /\ AcceptedPush
    /\ yielded = <<>>
    /\ Len(last.res.val) >= 2
    /\ Len(buffer) >= 2

\* a scan from the front that counts the items below the cutoff
RECURSIVE linear_scan(_, _, _)
linear_scan(buf, c, i) ==
    IF i < Len(buf) /\ buf[i + 1][1] < c THEN linear_scan(buf, c, i + 1) ELSE i

\* C17: at every accepted push the items with timestamp < cutoff
\* (timestamp saturating-minus limit) form a prefix of the buffer, so the
\* partition point of the binary search is the count of a linear scan from the
\* front, with the same evicted items and the same remaining buffer.
C17_BinarySearchIsLinearScan ==
    AcceptedPush =>
        LET buf1 == Append(last.pre, NewItem)
            c == saturating_sub(last.ts, last.lim)
            n == linear_scan(buf1, c, 0)
        IN /\ \A i \in 1..Len(buf1) : (buf1[i][1] < c) <=> (i <= n)
           /\ partition_point(buf1, c) = n
           /\ last.res.val = SubSeq(buf1, 1, n)
           /\ Held = SubSeq(buf1, n + 1, Len(buf1))

C17_Witness ==
    /\ Released
    /\ AcceptedPush
    /\ Len(last.pre) >= 4
    /\ Len(last.res.val) >= 2
    /\ Len(buffer) >= 3

\* C18: the item inserted by an accepted push is never evicted by that push,
\* for any limit, zero included: right after it the buffer is non-empty and
\* its back item is the (timestamp, value) just pushed.
C18_NewItemStays ==
    AcceptedPush =>
        /\ Held # <<>>
        /\ Held[Len(Held)] = NewItem
        /\ (Released => back(buffer) = Some(NewItem) /\ ~is_empty(buffer))

C18_Witness ==
    /\ Released
    /\ AcceptedPush
    /\ last.lim = 0
    /\ Len(last.pre) >= 2
    /\ back(buffer) = Some(NewItem)

\* C19: when `limit` is never changed after construction, the span
\* back.timestamp - front.timestamp of a non-empty buffer is <= limit in every
\* reachable state, i.e. duration() <= limit always.
C19_SpanWithinLimit ==
    /\ (Held # <<>> => Held[Len(Held)][1] - Held[1][1] <= limit)
    /\ (Released => duration(buffer).tag = "Some" /\ duration(buffer).val <= limit)
    /\ (Released /\ last.op = "duration" => last.res.val <= limit)

C19_Witness ==
    /\ Released
    /\ last.op = "pop_back"
    /\ Len(buffer) >= 2
    /\ duration(buffer).val >= 1

C19_WitnessDuration ==
    /\ Released
    /\ last.op = "duration"
    /\ ~onlyPush
    /\ last.res.val = limit
    /\ limit >= 2
====
